---- MODULE Spec2Model ----
(***************************************************************************)
(* Model of pdfRenameWithRequests.py: the field parser and sanitizers as   *)
(* operators on character sequences, and the download / rename pipeline    *)
(* (process_pdf) as a state machine over a small filesystem.               *)
(*                                                                         *)
(* A Python str is a sequence of one-character strings.  None and a raised *)
(* AttributeError are two distinguished values that no str equals.         *)
(***************************************************************************)
EXTENDS Integers, Sequences, FiniteSets, TLC

\* ------------------------------------------------------------------ bounds
MaxLen == 3
MaxLimit == 2
MaxPages == 2
MaxHyperlinks == 2
MaxRerunPages == 1
MaxRerunHyperlinks == 1
MaxRuns == 2

\* ------------------------------------------------------- program constants
max_workers == 10
uploaded_by_limit == 5

\* ------------------------------------------------------------ Python values
None == <<"<None>">>
AttributeError == <<"<AttributeError>">>

NL == "\n"
Whitespace == {" ", NL, "\t"}
Digits == {"0", "1", "2", "3", "4", "5", "6", "7", "8", "9"}
Letters ==
  {"a", "b", "c", "d", "e", "f", "g", "h", "i", "j", "k", "l", "m", "n", "o",
   "p", "q", "r", "s", "t", "u", "v", "w", "x", "y", "z",
   "A", "B", "C", "D", "E", "F", "G", "H", "I", "J", "K", "L", "M", "N", "O",
   "P", "Q", "R", "S", "T", "U", "V", "W", "X", "Y", "Z"}
WordChars == Letters \cup Digits \cup {"_"}

\* ------------------------------------------------------------- str methods
Min(S) == CHOOSE m \in S : \A k \in S : m <= k
Max(S) == CHOOSE m \in S : \A k \in S : m >= k

Drop(s, n) == SubSeq(s, n + 1, Len(s))
Take(s, n) == SubSeq(s, 1, n)

\* index (1-based) of the first occurrence of p in s at or after i; 0 if none
FindFrom(s, p, i) ==
  LET hits == {k \in i .. (Len(s) - Len(p) + 1) : SubSeq(s, k, k + Len(p) - 1) = p}
  IN  IF hits = {} THEN 0 ELSE Min(hits)

Find(s, p) == FindFrom(s, p, 1)

\* s.replace(old, new): leftmost, non-overlapping occurrences of old
RECURSIVE Replace(_, _, _)
Replace(s, old, new) ==
  LET i == Find(s, old)
  IN  IF i = 0 THEN s
      ELSE Take(s, i - 1) \o new \o Replace(Drop(s, i - 1 + Len(old)), old, new)

\* s.strip()
Strip(s) ==
  LET solid == {k \in 1 .. Len(s) : s[k] \notin Whitespace}
  IN  IF solid = {} THEN <<>> ELSE SubSeq(s, Min(solid), Max(solid))

\* s.split(sep): the list of pieces (always at least one)
RECURSIVE Split(_, _)
Split(s, sep) ==
  LET i == Find(s, sep)
  IN  IF i = 0 THEN <<s>>
      ELSE <<Take(s, i - 1)>> \o Split(Drop(s, i - 1 + Len(sep)), sep)

\* [c for c in s if c in cs]
KeepChars(s, cs) == SelectSeq(s, LAMBDA c : c \in cs)

\* c * n
Repeat(c, n) == [k \in 1 .. n |-> c]

\* str(n) for a natural number
DigitChar(d) == <<"0", "1", "2", "3", "4", "5", "6", "7", "8", "9">>[d + 1]

RECURSIVE IntStr(_)
IntStr(n) == IF n < 10 THEN <<DigitChar(n)>> ELSE IntStr(n \div 10) \o <<DigitChar(n % 10)>>

\* f"{v}": None is interpolated as the text None
Fmt(v) == IF v = None THEN <<"N", "o", "n", "e">> ELSE v

\* the longest prefix of s made of characters of set cs
Span(s, cs) ==
  LET other == {k \in 1 .. Len(s) : s[k] \notin cs}
  IN  IF other = {} THEN s ELSE Take(s, Min(other) - 1)

\* re.sub(r"\W+", "", s)
StripNonWord(s) == KeepChars(s, WordChars)

\* ------------------------------------------------------------ the patterns
KwUploadedBy == <<"U", "p", "l", "o", "a", "d", "e", "d", " ", "B", "y">>
KwTakenDate == <<"T", "a", "k", "e", "n", " ", "D", "a", "t", "e">>
KwUploadDate == <<"U", "p", "l", "o", "a", "d", " ", "D", "a", "t", "e">>
KwDescription == <<"D", "e", "s", "c", "r", "i", "p", "t", "i", "o", "n">>
KwJob == <<"J", "o", "b", " ", "#", ":">>
KwAt == <<" ", "a", "t">>
KwUploadDateJoined == <<"U", "p", "l", "o", "a", "d", "D", "a", "t", "e">>

\* re.findall(kw + r"\n(.*?)\n", text, re.DOTALL), cut to its first match:
\* <<>> when there is no match, <<capture>> otherwise
FindLineAfter(text, kw) ==
  LET i == Find(text, kw \o <<NL>>)
      rest == Drop(text, i - 1 + Len(kw) + 1)
      j == Find(rest, <<NL>>)
  IN  IF i = 0 \/ j = 0 THEN <<>> ELSE <<Take(rest, j - 1)>>

\* re.findall(r"(.*?)Description", text, re.DOTALL), cut to its first match
FindDescription(text) ==
  LET i == Find(text, KwDescription)
  IN  IF i = 0 THEN <<>> ELSE <<Take(text, i - 1)>>

\* re.findall(r"Job #:\s(\d+)", text), cut to its first match
RECURSIVE FindJobFrom(_, _)
FindJobFrom(text, i) ==
  LET k == FindFrom(text, KwJob, i)
      after == Drop(text, k - 1 + Len(KwJob))
  IN  IF k = 0 THEN <<>>
      ELSE IF after # <<>> /\ Head(after) \in Whitespace /\ Span(Tail(after), Digits) # <<>>
           THEN <<Span(Tail(after), Digits)>>
           ELSE FindJobFrom(text, k + 1)

FindJob(text) == FindJobFrom(text, 1)

Fields == {"uploaded_by", "taken_date", "upload_date", "description", "job_number"}

\* re.findall of a field's pattern, cut to the first match
findall(field, text) ==
  CASE field = "uploaded_by" -> FindLineAfter(text, KwUploadedBy)
    [] field = "taken_date" -> FindLineAfter(text, KwTakenDate)
    [] field = "upload_date" -> FindLineAfter(text, KwUploadDate)
    [] field = "description" -> FindDescription(text)
    [] field = "job_number" -> FindJob(text)

\* -------------------------------------------------------- helper functions
\* [line for line in lines if line.strip()]
NonBlank(lines) == SelectSeq(lines, LAMBDA l : Strip(l) # <<>>)

clean_description(description_field) ==
  LET lines == NonBlank(Split(Strip(description_field[1]), <<NL>>))
      kept == IF description_field # <<>>
              THEN (IF lines # <<>> THEN lines[Len(lines)] ELSE None)
              ELSE None
  IN  IF kept = None THEN AttributeError
      ELSE Replace(Replace(kept, <<" ">>, <<"-">>), <<"_">>, <<"-">>)

\* clean_field as a width floor: a value of limit characters or more is kept whole
clean_field_floor(field, limit) ==
  LET f == Replace(Strip(field[1]), <<" ">>, <<"_">>)
  IN  IF field # <<>>
      THEN IF limit # 0
           THEN (IF Len(f) >= limit THEN f ELSE f \o Repeat("_", limit - Len(f)))
           ELSE f
      ELSE None

\* limit = 0 stands for both limit=None and limit=0: "if limit:" treats them alike
clean_field(field, limit) ==
  LET f == Replace(Strip(field[1]), <<" ">>, <<"_">>)
  IN  IF field # <<>>
      THEN IF limit # 0
           THEN (IF Len(f) >= limit THEN Take(f, limit) ELSE f \o Repeat("_", limit - Len(f)))
           ELSE f
      ELSE None

clean_date(date_field) ==
  LET d == Replace(Strip(Split(date_field[1], KwAt)[1]), <<"/">>, <<"_">>)
  IN  IF date_field # <<>>
      THEN (IF Replace(d, <<" ">>, <<>>) = KwUploadDateJoined THEN <<>> ELSE d)
      ELSE None

\* the 5-tuple as a record; raised = TRUE when clean_description raises
parse_text_to_fields(text0) ==
  LET text == Replace(text0, <<" ", " ">>, <<" ">>)
      description == clean_description(findall("description", text))
      job == findall("job_number", text)
  IN  IF description = AttributeError
      THEN [raised |-> TRUE, uploaded_by |-> None, taken_date |-> None, upload_date |-> None,
            description |-> None, job_number |-> None]
      ELSE [raised |-> FALSE,
            uploaded_by |-> clean_field(findall("uploaded_by", text), uploaded_by_limit),
            taken_date |-> clean_date(findall("taken_date", text)),
            upload_date |-> clean_date(findall("upload_date", text)),
            description |-> description,
            job_number |-> IF job # <<>> THEN job[1] ELSE None]

\* ------------------------------------------------- page texts (the inputs)
\* A page text is assembled from five optional sections; a choice record
\* says which variant of each section the page carries.
DescSection(d) ==
  CASE d = 0 -> <<>>
    [] d = 1 -> <<"F", "o", NL, NL, "B", "a", "r", " ", "B", "a", "z", NL>> \o KwDescription \o <<NL>>
    [] d = 2 -> KwDescription \o <<NL>>
    [] d = 3 -> <<"P", "i", "e", "r", "_", "2", NL>> \o KwDescription \o <<NL>>

UploadedSection(u) ==
  CASE u = 0 -> <<>>
    [] u = 1 -> KwUploadedBy \o <<NL, "A", "l", NL>>
    [] u = 2 -> KwUploadedBy \o <<NL, "A", "l", "i", "c", "e", " ", " ", "B", "o", "b", NL>>

TakenSection(t) ==
  CASE t = 0 -> <<>>
    [] t = 1 -> KwTakenDate \o <<NL, "3", "/", "1", "/", "2", "0", " ", "a", "t", " ", "1", " ", "P", "M", NL>>
    [] t = 2 -> KwTakenDate \o <<NL>>

UploadSection(up) ==
  CASE up = 0 -> <<>>
    [] up = 1 -> KwUploadDate \o <<NL, "3", "/", "2", "/", "2", "0", " ", "a", "t", " ", "2", " ", "P", "M", NL>>

JobSection(j) ==
  CASE j = 0 -> <<>>
    [] j = 1 -> KwJob \o <<" ", "1", "2", NL>>

TextChoices == [d : 0 .. 3, u : 0 .. 2, t : 0 .. 2, up : 0 .. 1, j : 0 .. 1]

TextOf(c) ==
  DescSection(c.d) \o UploadedSection(c.u) \o TakenSection(c.t) \o UploadSection(c.up)
    \o JobSection(c.j)

\* strings of length at most n over the characters of cs
Strs(cs, n) == UNION {[1 .. k -> cs] : k \in 0 .. n}

SampleFields ==
  {<<"A", "l", "i", "c", "e", " ", "B", "o", "b">>, <<"A", "l">>,
   <<" ", " ", "A", "l", "i", "c", "e", " ", " ">>}

\* match lists handed to the cleaners: no match, or one captured string
FieldInputs == {<<>>} \cup {<<s>> : s \in Strs({"a", " "}, MaxLen) \cup SampleFields}
Limits == (0 .. MaxLimit) \cup {uploaded_by_limit}
DateInputs ==
  {<<>>, <<KwUploadDate>>, <<KwUploadDateJoined>>} \cup
  {<<s>> : s \in Strs({"3", "/", " "}, MaxLen)} \cup
  {<<s \o KwAt \o <<" ", "1">>>> : s \in Strs({"3", "/"}, MaxLen)}
DescInputs == {<<>>} \cup {<<s>> : s \in Strs({"a", " ", NL, "_"}, MaxLen)}

\* ------------------------------------------------------------------- state
VARIABLES
  fn, arg, lim, ret, parsed,   \* the helper last called, its input and result
  pdf,          \* the document: per page the two extracted texts and the links
  run,          \* how many times the program has been started on the directory
  pc,           \* where process_pdf is
  page,         \* loop variable of the page loop being executed (0-based)
  futures,      \* the futures list of download_jpegs_from_pdf
  yielded,      \* the futures as_completed has handed out so far
  jpeg_files,   \* the page number -> temp file mapping
  fs,           \* the files under the save directory: path -> content
  exc,          \* what aborted the run, "none" while nothing has
  log           \* every rename_jpeg call made, in order, with its outcome

pureVars == <<fn, arg, lim, ret, parsed>>
runVars == <<pdf, run, pc, page, futures, yielded, jpeg_files, fs, exc, log>>
vars == <<fn, arg, lim, ret, parsed, pdf, run, pc, page, futures, yielded, jpeg_files,
          fs, exc, log>>

\* ------------------------------------------------------------------- paths
\* A path is the sequence of its components below the save directory.
JpegExt == <<".", "j", "p", "e", "g">>
Underscore == <<"_">>
dirname(path) == Take(path, Len(path) - 1)
basename(path) == path[Len(path)]
join(dir, name) == dir \o <<name>>
exists(files, path) == path \in DOMAIN files

\* the files left once path is gone
Without(files, path) == [q \in DOMAIN files \ {path} |-> files[q]]

\* os.rename(src, dst) when it succeeds: dst is replaced if it is there
os_rename(files, src, dst) ==
  IF src = dst THEN files ELSE (dst :> files[src]) @@ Without(files, src)

\* --------------------------------------------------------------- documents
PipelineTexts ==
  {[d |-> 1, u |-> 1, t |-> 1, up |-> 1, j |-> 1],
   [d |-> 1, u |-> 1, t |-> 2, up |-> 1, j |-> 1],
   [d |-> 0, u |-> 1, t |-> 1, up |-> 1, j |-> 1]}

\* The first page loop uses nothing of a page's text but its description,
\* so the two texts with the same description are one case for it.
FirstPassTexts ==
  {[d |-> 1, u |-> 1, t |-> 1, up |-> 1, j |-> 1],
   [d |-> 0, u |-> 1, t |-> 1, up |-> 1, j |-> 1]}

\* a page: the text each of the two extractors yields, and its hyperlinks
PageKinds(maxLinks) ==
  [plumber : FirstPassTexts, pypdf : PipelineTexts, links : 0 .. maxLinks]
RECURSIVE TotalLinks(_)
TotalLinks(doc) == IF doc = <<>> THEN 0 ELSE Head(doc).links + TotalLinks(Tail(doc))

Documents(maxPages, maxLinks) ==
  {doc \in UNION {[1 .. n -> PageKinds(maxLinks)] : n \in 1 .. maxPages} :
     TotalLinks(doc) <= maxLinks}

\* the parse of each page text, computed once
Parsed == [c \in PipelineTexts |-> parse_text_to_fields(TextOf(c))]

NoFields == [raised |-> FALSE, uploaded_by |-> None, taken_date |-> None,
             upload_date |-> None, description |-> None, job_number |-> None]

\* -------------------------------------------------------------- operations
\* download_jpeg naming the file by the label alone
download_path_shared(path, count, section_title) ==
  join(path, Fmt(section_title) \o JpegExt)

\* download_jpeg: the file a fetch writes
download_path(path, count, section_title) ==
  join(path, Fmt(section_title) \o Underscore \o IntStr(count) \o JpegExt)

\* the futures of one page submitted with the 0-based page index
Submitted_zero_based(pg, count, section_title) ==
  [k \in 1 .. pg.links |->
     [uri |-> <<count, k>>, count |-> count - 1,
      filename |-> download_path(<<>>, count - 1, section_title), state |-> "queued"]]

\* the futures submitted for one page, in link order
Submitted(pg, count, section_title) ==
  [k \in 1 .. pg.links |->
     [uri |-> <<count, k>>, count |-> count,
      filename |-> download_path(<<>>, count, section_title), state |-> "queued"]]

Terminal == {"done", "failed"}
Busy == {i \in 1 .. Len(futures) : futures[i].state = "open"}

\* rename_jpeg putting the taken date into every name
new_name_base_dated(page_number, description, taken_date, job_number) ==
  StripNonWord(
    Fmt(description) \o Underscore \o IntStr(page_number) \o Underscore \o Fmt(taken_date)
      \o Underscore \o Fmt(job_number))

\* rename_jpeg: the name chosen for the file
new_name_base(page_number, description, taken_date, job_number) ==
  StripNonWord(
    IF taken_date = <<>>
    THEN Fmt(description) \o Underscore \o IntStr(page_number) \o Underscore \o Fmt(job_number)
    ELSE Fmt(description) \o Underscore \o IntStr(page_number) \o Underscore \o Fmt(taken_date)
           \o Underscore \o Fmt(job_number))

suffixed(base, suffix) ==
  IF suffix = 0 THEN base \o JpegExt ELSE base \o Underscore \o IntStr(suffix) \o JpegExt

RECURSIVE free_suffix(_, _, _, _)
free_suffix(files, dir, base, suffix) ==
  IF exists(files, join(dir, suffixed(base, suffix)))
  THEN free_suffix(files, dir, base, suffix + 1)
  ELSE suffix

\* move_jpeg_to_directory when it succeeds
move_jpeg_to_directory(files, old_file, description) ==
  os_rename(files, old_file, join(join(dirname(old_file), description), basename(old_file)))

\* rename_jpeg: the name computed and the files afterwards.  outcome says
\* which of the two os.rename calls, if any, raises; the exception is caught.
rename_jpeg(files, old_file, page_number, description, taken_date, job_number, outcome) ==
  LET base == new_name_base(page_number, description, taken_date, job_number)
      new_name == suffixed(base, free_suffix(files, dirname(old_file), base, 0))
      new_file == join(dirname(old_file), new_name)
      renamed == os_rename(files, old_file, new_file)
  IN  [new_name |-> new_name,
       files |-> CASE outcome = "rename_fails" -> files
                   [] outcome = "move_fails" -> renamed
                   [] outcome = "ok" -> move_jpeg_to_directory(renamed, new_file, description)]

Outcomes == {"ok", "rename_fails", "move_fails"}

\* ----------------------------------------------------------- initial state
PureIdle ==
  /\ fn = "none" /\ arg = <<>> /\ lim = 0 /\ ret = None /\ parsed = NoFields

\* the program is started on one of docs with an empty save directory
Start(docs) ==
  /\ PureIdle
  /\ pdf \in docs
  /\ run = 1
  /\ pc = "walk1"
  /\ page = 0
  /\ futures = <<>>
  /\ yielded = {}
  /\ jpeg_files = <<>>
  /\ fs = <<>>
  /\ exc = "none"
  /\ log = <<>>

Init == Start(Documents(MaxPages, MaxHyperlinks))

\* ----------------------------------------------- download_jpegs_from_pdf
\* one iteration of the page loop: parse the page, submit one fetch per link
Walk1Page ==
  /\ pc = "walk1"
  /\ LET count == page + 1
         pg == pdf[count]
         f == Parsed[pg.plumber]
     IN  IF f.raised
         THEN /\ pc' = "unwind"
              /\ exc' = "parse"
              /\ UNCHANGED <<page, futures>>
         ELSE /\ futures' = futures \o Submitted(pg, count, f.description)
              /\ page' = count
              /\ pc' = IF count = Len(pdf) THEN "collect" ELSE "walk1"
              /\ exc' = exc
  /\ UNCHANGED <<pureVars, pdf, run, yielded, jpeg_files, fs, log>>

\* download_jpeg on a pool worker: requests.get returned, the file is opened
\* for writing (created or truncated)
FetchOpen ==
  \E i \in 1 .. Len(futures) :
    /\ futures[i].state = "queued"
    /\ Cardinality(Busy) < max_workers
    /\ futures' = [futures EXCEPT ![i].state = "open"]
    /\ fs' = (futures[i].filename :> <<>>) @@ fs
    /\ UNCHANGED <<pureVars, pdf, run, pc, page, yielded, jpeg_files, exc, log>>

\* download_jpeg raises (requests.get or open fails): nothing is written
FetchFail ==
  \E i \in 1 .. Len(futures) :
    /\ futures[i].state = "queued"
    /\ Cardinality(Busy) < max_workers
    /\ futures' = [futures EXCEPT ![i].state = "failed"]
    /\ UNCHANGED <<pureVars, pdf, run, pc, page, yielded, jpeg_files, fs, exc, log>>

\* download_jpeg writes the response body through its own handle and returns
FetchWrite ==
  \E i \in 1 .. Len(futures) :
    /\ futures[i].state = "open"
    /\ futures' = [futures EXCEPT ![i].state = "done"]
    /\ fs' = IF exists(fs, futures[i].filename)
             THEN [fs EXCEPT ![futures[i].filename] = Append(@, futures[i].uri)]
             ELSE (futures[i].filename :> <<futures[i].uri>>) @@ fs
    /\ UNCHANGED <<pureVars, pdf, run, pc, page, yielded, jpeg_files, exc, log>>

\* future.result() with the fetch's exception swallowed
result_swallowed(future) == FALSE

\* future.result() raises what the fetch raised
result_raises(future) == future.state = "failed"

\* one iteration of the as_completed loop: it hands out a finished future
\* not handed out before
Collect ==
  \E i \in 1 .. Len(futures) :
    /\ pc = "collect"
    /\ i \notin yielded
    /\ futures[i].state \in Terminal
    /\ LET future == futures[i]
       IN  IF result_raises(future)
           THEN /\ pc' = "unwind"
                /\ exc' = "fetch"
                /\ jpeg_files' = jpeg_files
           ELSE /\ jpeg_files' = (future.count :> future.filename) @@ jpeg_files
                /\ UNCHANGED <<pc, exc>>
    /\ yielded' = yielded \cup {i}
    /\ UNCHANGED <<pureVars, pdf, run, page, futures, fs, log>>

\* leaving the with-block on the first result, without joining
may_return_early == yielded # {}

\* as_completed is exhausted and the executor's with-block has joined
may_return ==
  /\ yielded = 1 .. Len(futures)
  /\ \A i \in 1 .. Len(futures) : futures[i].state \in Terminal

CollectReturn ==
  /\ pc = "collect"
  /\ may_return
  /\ pc' = "walk2"
  /\ page' = 0
  /\ UNCHANGED <<pureVars, pdf, run, futures, yielded, jpeg_files, fs, exc, log>>

\* an exception leaves the with-block: the executor waits for the submitted
\* fetches, then the exception leaves process_pdf
Unwind ==
  /\ pc = "unwind"
  /\ \A i \in 1 .. Len(futures) : futures[i].state \in Terminal
  /\ pc' = "aborted"
  /\ UNCHANGED <<pureVars, pdf, run, page, futures, yielded, jpeg_files, fs, exc, log>>

\* ------------------------------------------------------------ process_pdf
\* one iteration of the second page loop
Walk2Page ==
  /\ pc = "walk2"
  /\ LET page_number == page + 1
         f == Parsed[pdf[page_number].pypdf]
     IN  IF f.raised
         THEN /\ pc' = "aborted"
              /\ exc' = "parse"
              /\ UNCHANGED <<page, fs, log>>
         ELSE /\ page' = page_number
              /\ pc' = IF page_number = Len(pdf) THEN "done" ELSE "walk2"
              /\ exc' = exc
              /\ IF page_number \in DOMAIN jpeg_files
                 THEN \E outcome \in Outcomes :
                        /\ exists(fs, jpeg_files[page_number]) \/ outcome = "rename_fails"
                        /\ LET r == rename_jpeg(fs, jpeg_files[page_number], page_number,
                                                f.description, f.taken_date, f.job_number,
                                                outcome)
                           IN  /\ fs' = r.files
                               /\ log' = Append(log,
                                    [run |-> run, old_file |-> jpeg_files[page_number],
                                     page_number |-> page_number,
                                     description |-> f.description,
                                     taken_date |-> f.taken_date,
                                     job_number |-> f.job_number,
                                     new_name |-> r.new_name, outcome |-> outcome])
                 ELSE UNCHANGED <<fs, log>>
  /\ UNCHANGED <<pureVars, pdf, run, futures, yielded, jpeg_files>>

\* the program is started again on the same document and directory
Restart ==
  /\ pc \in {"done", "aborted"}
  /\ run < MaxRuns
  /\ run' = run + 1
  /\ pc' = "walk1"
  /\ page' = 0
  /\ futures' = <<>>
  /\ yielded' = {}
  /\ jpeg_files' = <<>>
  /\ exc' = "none"
  /\ UNCHANGED <<pureVars, pdf, fs, log>>

Next ==
  \/ Walk1Page
  \/ FetchOpen
  \/ FetchFail
  \/ FetchWrite
  \/ Collect
  \/ CollectReturn
  \/ Unwind
  \/ Walk2Page

\* one run of the program on an empty save directory
Spec == Init /\ [][Next]_vars

\* the program run again and again on one document and one save directory
InitRerun == Start(Documents(MaxRerunPages, MaxRerunHyperlinks))

NextRerun ==
  \/ Walk1Page
  \/ FetchOpen
  \/ FetchFail
  \/ FetchWrite
  \/ Collect
  \/ CollectReturn
  \/ Unwind
  \/ Walk2Page
  \/ Restart

SpecRerun == InitRerun /\ [][NextRerun]_vars

\* ------------------------------------------------- the helpers, one by one
\* A second specification in which the helpers are called directly on
\* bounded inputs; the pipeline does not run.
PipelineOff ==
  /\ pdf = <<>> /\ run = 0 /\ pc = "off" /\ page = 0 /\ futures = <<>> /\ yielded = {}
  /\ jpeg_files = <<>> /\ fs = <<>> /\ exc = "none" /\ log = <<>>

InitPure == PureIdle /\ PipelineOff

CallCleanField ==
  \E field \in FieldInputs, limit \in Limits :
    /\ fn' = "clean_field" /\ arg' = field /\ lim' = limit
    /\ ret' = clean_field(field, limit)
    /\ parsed' = NoFields
    /\ UNCHANGED runVars

CallCleanDate ==
  \E date_field \in DateInputs :
    /\ fn' = "clean_date" /\ arg' = date_field /\ lim' = 0
    /\ ret' = clean_date(date_field)
    /\ parsed' = NoFields
    /\ UNCHANGED runVars

CallCleanDescription ==
  \E description_field \in DescInputs :
    /\ fn' = "clean_description" /\ arg' = description_field /\ lim' = 0
    /\ ret' = clean_description(description_field)
    /\ parsed' = NoFields
    /\ UNCHANGED runVars

CallParse ==
  \E c \in TextChoices :
    /\ fn' = "parse_text_to_fields" /\ arg' = <<TextOf(c)>> /\ lim' = 0
    /\ ret' = None
    /\ parsed' = parse_text_to_fields(TextOf(c))
    /\ UNCHANGED runVars

NextPure == CallCleanField \/ CallCleanDate \/ CallCleanDescription \/ CallParse

SpecPure == InitPure /\ [][NextPure]_vars

\* ------------------------------------------------------------------ claims
\* the text the patterns are matched against: parse_text_to_fields first
\* replaces each pair of spaces by one
Matched(text) == Replace(text, <<" ", " ">>, <<" ">>)

\* C2: a field whose pattern has no match in the page text comes back null
\* from parse_text_to_fields and no exception is raised; clean_field,
\* clean_date and clean_description return null on an empty match list.
C2_MissingPatternGivesNull ==
  /\ fn = "parse_text_to_fields" =>
       \A field \in Fields :
         findall(field, Matched(arg[1])) = <<>> => ~parsed.raised /\ parsed[field] = None
  /\ fn \in {"clean_field", "clean_date", "clean_description"} /\ arg = <<>> => ret = None

\* the stripped, underscore-substituted value clean_field works on
Substituted(field) == Replace(Strip(field[1]), <<" ">>, <<"_">>)

\* C7 as stated: a limit L is a width floor; a shorter value is padded with
\* underscores to exactly L characters, a value of L characters or more is
\* returned unchanged.
C7_WidthFloor ==
  fn = "clean_field" /\ arg # <<>> /\ lim > 0 =>
    LET v == Substituted(arg)
    IN  /\ Len(v) < lim => ret = v \o [k \in 1 .. lim - Len(v) |-> "_"]
        /\ Len(v) >= lim => ret = v

\* C7 amended: a positive limit L fixes the width at exactly L; a shorter
\* value is padded with underscores to L characters, a value of L characters
\* or more is cut to its first L characters.
C7_FixedWidth ==
  fn = "clean_field" /\ arg # <<>> /\ lim > 0 =>
    LET v == Substituted(arg)
    IN  /\ Len(ret) = lim
        /\ \A k \in 1 .. lim : ret[k] = IF k <= Len(v) THEN v[k] ELSE "_"

\* clean_field(["Alice Bob"], 5) has returned Alice
C7_Witness ==
  /\ fn = "clean_field"
  /\ arg = << <<"A", "l", "i", "c", "e", " ", "B", "o", "b">> >>
  /\ lim = 5
  /\ ret = <<"A", "l", "i", "c", "e">>

\* ------------------------------------------------- claims on the pipeline
ThisRun == {i \in DOMAIN log : log[i].run = run}
Pages == DOMAIN pdf

\* the base name and file name the specification gives a rename_jpeg call
ClaimedBase(e) ==
  KeepChars(
    IF e.taken_date = <<>>
    THEN Fmt(e.description) \o <<"_">> \o IntStr(e.page_number) \o <<"_">> \o Fmt(e.job_number)
    ELSE Fmt(e.description) \o <<"_">> \o IntStr(e.page_number) \o <<"_">> \o Fmt(e.taken_date)
           \o <<"_">> \o Fmt(e.job_number),
    WordChars)

ClaimedName(e, k) ==
  IF k = 0 THEN ClaimedBase(e) \o JpegExt
  ELSE ClaimedBase(e) \o <<"_">> \o IntStr(k) \o JpegExt

\* where a call's file ends up when rename and move both succeed
OutPath(e) == join(join(dirname(e.old_file), e.description), e.new_name)

\* C1: of two successful rename_jpeg calls on temp files of one directory
\* with equal base names, the second one's file is suffixed _1 and both
\* output files exist afterwards.
C1_SecondCallSuffixed ==
  \A i, j \in DOMAIN log :
    ( /\ i < j
      /\ log[i].outcome = "ok" /\ log[j].outcome = "ok"
      /\ dirname(log[i].old_file) = dirname(log[j].old_file)
      /\ ClaimedBase(log[i]) = ClaimedBase(log[j])
      /\ \A k \in 1 .. j - 1 : k # i => ClaimedBase(log[k]) # ClaimedBase(log[j]) )
    => /\ log[j].new_name = ClaimedName(log[j], 1)
       /\ OutPath(log[i]) # OutPath(log[j])
       /\ exists(fs, OutPath(log[i])) /\ exists(fs, OutPath(log[j]))

\* C3: a page without hyperlinks is never a key of the mapping, and no
\* error is raised at that page in either page loop.
C3_LinklessPageSkipped ==
  \A p \in Pages :
    pdf[p].links = 0 => p \notin DOMAIN jpeg_files /\ ~(exc = "parse" /\ page + 1 = p)

\* a rename_jpeg call has just returned with rename and move both done
FinalizedOk == Len(log') = Len(log) + 1 /\ log'[Len(log')].outcome = "ok"

\* C4 as stated: after a successful rename_jpeg call the file is at
\* parent/description/name.jpeg with name the stripped base name, and neither
\* the temp file nor the renamed file is left in the parent directory.
C4_PlainName ==
  [][FinalizedOk =>
       LET e == log'[Len(log')]
           parent == dirname(e.old_file)
           name == ClaimedName(e, 0)
       IN  /\ exists(fs', join(join(parent, e.description), name))
           /\ ~exists(fs', e.old_file)
           /\ ~exists(fs', join(parent, name))]_vars

\* C4 amended: the name is the stripped base name, followed by _k for the
\* first k >= 1 whose name is free when a file of the plain name already
\* lies in the parent directory; the file, with the temp file's content, is
\* at parent/description/name.jpeg and neither the temp file nor the renamed
\* file is left in the parent directory.
C4_FirstFreeName ==
  [][FinalizedOk =>
       LET e == log'[Len(log')]
           parent == dirname(e.old_file)
       IN  \E k \in 0 .. Cardinality(DOMAIN fs) :
             /\ \A m \in 0 .. k - 1 : exists(fs, join(parent, ClaimedName(e, m)))
             /\ ~exists(fs, join(parent, ClaimedName(e, k)))
             /\ exists(fs', join(join(parent, e.description), ClaimedName(e, k)))
             /\ fs'[join(join(parent, e.description), ClaimedName(e, k))] = fs[e.old_file]
             /\ ~exists(fs', e.old_file)
             /\ ~exists(fs', join(parent, ClaimedName(e, k)))]_vars

\* a call with the sentinel date has succeeded under a suffixed name
C4_Witness ==
  \E i \in DOMAIN log :
    /\ log[i].outcome = "ok" /\ log[i].taken_date = <<>>
    /\ log[i].new_name = ClaimedName(log[i], 1)
    /\ exists(fs, OutPath(log[i]))

\* C5: once a fetch has raised, the run makes no rename_jpeg call and never
\* gets to the second page loop; when the loop meets the failed future the
\* run is aborted by it.
C5_FetchErrorAborts ==
  /\ (\E i \in 1 .. Len(futures) : futures[i].state = "failed") =>
       pc \notin {"walk2", "done"} /\ ThisRun = {}
  /\ (\E i \in yielded : futures[i].state = "failed") =>
       pc \in {"unwind", "aborted"} /\ exc = "fetch"

\* a run aborted by a fetch error although another fetch wrote its file
C5_Witness ==
  /\ pc = "aborted" /\ exc = "fetch"
  /\ \E i \in 1 .. Len(futures) : futures[i].state = "done" /\ exists(fs, futures[i].filename)
  /\ ThisRun = {}

\* C6: when rename_jpeg fails for a page, the finished run has still called
\* rename_jpeg for every later page that is a key of the mapping.
C6_LaterPagesFinalized ==
  pc \in {"done", "aborted"} =>
    \A i \in ThisRun :
      log[i].outcome # "ok" =>
        \A q \in DOMAIN jpeg_files :
          q > log[i].page_number => \E j \in ThisRun : log[j].page_number = q

\* C8: with at most one hyperlink per page, the returned mapping has a key
\* for every page with a hyperlink and the file it names holds exactly what
\* the fetch submitted for that page wrote.
C8_KeyedByPage ==
  pc = "walk2" /\ (\A p \in Pages : pdf[p].links <= 1) =>
    \A p \in Pages :
      p > page /\ pdf[p].links = 1 =>
        /\ p \in DOMAIN jpeg_files
        /\ exists(fs, jpeg_files[p])
        /\ fs[jpeg_files[p]] = << <<p, 1>> >>

\* two pages with one hyperlink each, both in the returned mapping
C8_Witness ==
  /\ pc = "walk2" /\ page = 0
  /\ Len(pdf) = 2 /\ pdf[1].links = 1 /\ pdf[2].links = 1
  /\ DOMAIN jpeg_files = {1, 2}
  /\ jpeg_files[1] # jpeg_files[2]

\* C9: the mapping is read and files are renamed only when every submitted
\* fetch has completed.
C9_JoinBeforeRead ==
  pc \in {"walk2", "done"} \/ ThisRun # {} =>
    \A i \in 1 .. Len(futures) : futures[i].state \in Terminal

\* the second loop is running after two fetches, one file already renamed
C9_Witness ==
  /\ pc = "walk2" /\ Len(futures) >= 2 /\ ThisRun # {}

\* C10 as stated: for a page with several hyperlinks the image kept is the
\* one fetched from the last-submitted hyperlink.
C10_LastSubmittedWins ==
  pc = "walk2" =>
    \A p \in Pages :
      p > page /\ pdf[p].links > 1 =>
        /\ p \in DOMAIN jpeg_files
        /\ exists(fs, jpeg_files[p])
        /\ fs[jpeg_files[p]] # <<>>
        /\ fs[jpeg_files[p]][Len(fs[jpeg_files[p]])] = <<p, pdf[p].links>>

\* C10 amended: for a page with several hyperlinks the mapping names the one
\* temp file all its fetches write, and the image kept is the one of that
\* page's hyperlinks whose fetch wrote the file last, whatever the order of
\* submission.
C10_LastWriterWins ==
  pc = "walk2" =>
    \A p \in Pages :
      p > page /\ pdf[p].links > 1 =>
        /\ p \in DOMAIN jpeg_files
        /\ jpeg_files[p] =
             <<Fmt(Parsed[pdf[p].plumber].description) \o <<"_">> \o IntStr(p) \o JpegExt>>
        /\ exists(fs, jpeg_files[p])
        /\ fs[jpeg_files[p]] # <<>>
        /\ \A k \in 1 .. Len(fs[jpeg_files[p]]) :
             fs[jpeg_files[p]][k] \in {<<p, l>> : l \in 1 .. pdf[p].links}

\* the image of the first-submitted hyperlink is the one kept
C10_Witness ==
  /\ pc = "walk2" /\ page = 0
  /\ \E p \in Pages :
       /\ pdf[p].links = 2 /\ p \in DOMAIN jpeg_files /\ exists(fs, jpeg_files[p])
       /\ fs[jpeg_files[p]] = << <<p, 2>>, <<p, 1>> >>

====
